---- MODULE Spec2Model ----
(***************************************************************************)
(* State-machine model of the RAG backend (backend/rag_service.py,         *)
(* backend/app.py, backend/models.py).                                     *)
(*                                                                         *)
(* Two specifications share the variables:                                 *)
(*   SpecInit  - construction of RAGService (build-or-load of the vector   *)
(*               store) by one or more initializers over one file system;  *)
(*   Spec      - the constructed service answering /query and /chat        *)
(*               requests on the single uvicorn event loop.                *)
(***************************************************************************)
EXTENDS Integers, Sequences, FiniteSets

\* ------------------------------------------------------------------------
\* Bounds of the model
\* ------------------------------------------------------------------------
MaxInits == 2        \* initializers (RAGService constructions) that may run
MaxReqs == 2         \* HTTP requests per behaviour

\* ------------------------------------------------------------------------
\* Program constants (backend/config.py)
\* ------------------------------------------------------------------------
CHUNK_SIZE == 1000
CHUNK_OVERLAP == 200

Inits == 1..MaxInits
None == "None"

\* ------------------------------------------------------------------------
\* Documents.  A document is known by its file name; DocLen is the length
\* of its text.  The three sample documents are the ones
\* _create_sample_documents writes (lengths of the stripped texts).
\* ------------------------------------------------------------------------
SampleNames == <<"python_basics.txt", "machine_learning.txt", "data_structures.txt">>
SampleDocs == {SampleNames[k] : k \in 1..Len(SampleNames)}
UserDocs == {"notes.txt", "faq.txt"}
DocOrder == <<"data_structures.txt", "faq.txt", "machine_learning.txt",
              "notes.txt", "python_basics.txt">>

DocLen(d) ==
    CASE d = "python_basics.txt" -> 482
      [] d = "machine_learning.txt" -> 401
      [] d = "data_structures.txt" -> 321
      [] d = "notes.txt" -> 1500
      [] OTHER -> 300

\* RecursiveCharacterTextSplitter(chunk_size, chunk_overlap): a text that fits
\* chunk_size is one chunk; a longer one is cut into windows of chunk_size
\* that advance by chunk_size - chunk_overlap.
NChunks(len) ==
    IF len <= CHUNK_SIZE THEN 1
    ELSE 1 + ((len - CHUNK_SIZE) + (CHUNK_SIZE - CHUNK_OVERLAP) - 1)
                 \div (CHUNK_SIZE - CHUNK_OVERLAP)

\* text_splitter.split_documents(documents): the chunks, document by
\* document in loader order, each chunk <<document, sequence index>>.
RECURSIVE SplitFrom(_, _)
SplitFrom(docs, k) ==
    IF k > Len(DocOrder) THEN <<>>
    ELSE (IF DocOrder[k] \in docs
          THEN [j \in 1..NChunks(DocLen(DocOrder[k])) |-> <<DocOrder[k], j>>]
          ELSE <<>>) \o SplitFrom(docs, k + 1)

SplitDocuments(docs) == SplitFrom(docs, 1)

VARIABLES
    \* --- the file system shared by every initializer ---
    persistExists,   \* os.path.exists(settings.VECTOR_DB_PATH)
    persisted,       \* entries of the persisted collection: <<doc, seq, writer>>
    dataExists,      \* os.path.exists(settings.DATA_DIR)
    dataDocs,        \* the *.txt files under DATA_DIR
    fs0,             \* the file system as it was before any initializer ran
    \* --- per initializer (one RAGService under construction) ---
    ipc,             \* position in _initialize/_load_vector_store/_create_vector_store
    sawPersist,      \* os.path.exists(persist_dir) as seen: "exists", "missing" (None before)
    documents,       \* loader.load() result, once "enumerate" is in did
    written,         \* sample files written so far
    upserted,        \* chunks of splits added to the collection so far
    did,             \* build-path steps this initializer has performed
    ierr,            \* the exception _initialize re-raised (None if none)
    vectorstore,     \* self.vectorstore: None, "loaded" or "created"
    \* --- the constructed service and its requests ---
    chat_memories,   \* self.chat_memories: session id -> messages of its memory
    loop,            \* the request whose handler occupies the event loop (0: none)
    rpc,             \* position of each request
    req,             \* the request body: kind, question, session_id (None: absent)
    entry,           \* the session's messages when RAGService.chat was entered
    hist,            \* chat_history the chain loaded from memory
    calls,           \* external calls the request has issued, in order
    exc,             \* the exception raised inside the service call (None if none)
    answer,          \* the text the generation call returned
    resp,            \* the HTTP response: status and text
    served,          \* chat requests answered with 200, in the order answered
    inflight,        \* requests sent and not yet answered when the handler began
    store0,          \* self.chat_memories as it was when the handler began
    new_question,    \* the chain's standalone question (None before)
    query,           \* the text given to the retriever (None before)
    source_docs,     \* the chunks the retriever returned
    cprompt,         \* the prompt of the condensing generation call
    prompt           \* the prompt of the answering generation call

ivars == <<persistExists, persisted, dataExists, dataDocs, fs0, ipc, sawPersist,
           documents, written, upserted, did, ierr, vectorstore>>

rvars == <<chat_memories, loop, rpc, req, entry, hist, calls, exc, answer, resp, served,
           inflight, store0, new_question, query, source_docs, cprompt, prompt>>

vars == <<ivars, rvars>>

\* ------------------------------------------------------------------------
\* Construction: RAGService.__init__ -> _initialize
\* ------------------------------------------------------------------------
Entries(docs, w) ==
    {<<SplitDocuments(docs)[k][1], SplitDocuments(docs)[k][2], w>> :
        k \in 1..Len(SplitDocuments(docs))}

InitFS ==
    /\ persistExists \in BOOLEAN
    /\ persisted \in (IF persistExists THEN {{}, Entries(SampleDocs, 0)} ELSE {{}})
    /\ dataExists \in BOOLEAN
    /\ dataDocs \in (IF dataExists THEN SUBSET UserDocs ELSE {{}})
    /\ fs0 = [persistExists |-> persistExists, dataExists |-> dataExists,
              dataDocs |-> dataDocs]

InitInitializers ==
    /\ ipc = [i \in Inits |-> "idle"]
    /\ sawPersist = [i \in Inits |-> None]
    /\ documents = [i \in Inits |-> {}]
    /\ written = [i \in Inits |-> 0]
    /\ upserted = [i \in Inits |-> 0]
    /\ did = [i \in Inits |-> {}]
    /\ ierr = [i \in Inits |-> None]
    /\ vectorstore = [i \in Inits |-> None]

Raise(i, e) ==
    /\ ipc' = [ipc EXCEPT ![i] = "failed"]
    /\ ierr' = [ierr EXCEPT ![i] = e]

\* _initialize, lines 28-47: the LLM client and the embedding model are
\* constructed; either constructor may raise.
Initialize(i) ==
    /\ ipc[i] = "idle"
    /\ UNCHANGED rvars
    /\ \/ /\ ipc' = [ipc EXCEPT ![i] = "check"]
          /\ UNCHANGED ierr
       \/ Raise(i, "ComponentError")
    /\ UNCHANGED <<persistExists, persisted, dataExists, dataDocs, fs0, sawPersist,
                   documents, written, upserted, did, vectorstore>>

\* Variant of LoadVectorStore: the store is built whether or not the
\* persist directory exists.
LoadVectorStoreRebuild(i) ==
    /\ ipc[i] = "check"
    /\ UNCHANGED rvars
    /\ sawPersist' = [sawPersist EXCEPT ![i] = IF persistExists THEN "exists" ELSE "missing"]
    /\ ipc' = [ipc EXCEPT ![i] = "create"]
    /\ UNCHANGED <<persistExists, persisted, dataExists, dataDocs, fs0,
                   documents, written, upserted, did, ierr, vectorstore>>

\* _load_vector_store: load when the persist directory exists, else build.
LoadVectorStore(i) ==
    /\ ipc[i] = "check"
    /\ UNCHANGED rvars
    /\ sawPersist' = [sawPersist EXCEPT ![i] = IF persistExists THEN "exists" ELSE "missing"]
    /\ IF persistExists
       THEN /\ vectorstore' = [vectorstore EXCEPT ![i] = "loaded"]
            /\ ipc' = [ipc EXCEPT ![i] = "ready"]
       ELSE /\ ipc' = [ipc EXCEPT ![i] = "create"]
            /\ UNCHANGED vectorstore
    /\ UNCHANGED <<persistExists, persisted, dataExists, dataDocs, fs0,
                   documents, written, upserted, did, ierr>>

\* _create_vector_store, line 75: the existence test of the data directory.
CreateVectorStore(i) ==
    /\ ipc[i] = "create"
    /\ UNCHANGED rvars
    /\ ipc' = [ipc EXCEPT ![i] = IF dataExists THEN "load_docs" ELSE "makedirs"]
    /\ UNCHANGED <<persistExists, persisted, dataExists, dataDocs, fs0, sawPersist,
                   documents, written, upserted, did, ierr, vectorstore>>

\* line 76: os.makedirs raises FileExistsError when the directory has
\* appeared since the test.
MakeDirs(i) ==
    /\ ipc[i] = "makedirs"
    /\ UNCHANGED rvars
    /\ IF dataExists
       THEN /\ Raise(i, "FileExistsError")
            /\ UNCHANGED <<dataExists, did>>
       ELSE /\ dataExists' = TRUE
            /\ did' = [did EXCEPT ![i] = @ \cup {"makedirs"}]
            /\ ipc' = [ipc EXCEPT ![i] = "samples"]
            /\ UNCHANGED ierr
    /\ UNCHANGED <<persistExists, persisted, dataDocs, fs0, sawPersist,
                   documents, written, upserted, vectorstore>>

\* _create_sample_documents: one file per step, in dictionary order.
CreateSampleDocuments(i) ==
    /\ ipc[i] = "samples"
    /\ UNCHANGED rvars
    /\ dataDocs' = dataDocs \cup {SampleNames[written[i] + 1]}
    /\ written' = [written EXCEPT ![i] = @ + 1]
    /\ did' = [did EXCEPT ![i] = @ \cup {"samples"}]
    /\ ipc' = [ipc EXCEPT ![i] =
                 IF written[i] + 1 = Len(SampleNames) THEN "load_docs" ELSE "samples"]
    /\ UNCHANGED <<persistExists, persisted, dataExists, fs0, sawPersist,
                   documents, upserted, ierr, vectorstore>>

\* Variant of LoadDocuments: an empty document list is not rejected.
LoadDocumentsUnchecked(i) ==
    /\ ipc[i] = "load_docs"
    /\ UNCHANGED rvars
    /\ documents' = [documents EXCEPT ![i] = dataDocs]
    /\ did' = [did EXCEPT ![i] = @ \cup {"enumerate"}]
    /\ ipc' = [ipc EXCEPT ![i] = "from_documents"]
    /\ UNCHANGED <<persistExists, persisted, dataExists, dataDocs, fs0, sawPersist,
                   written, upserted, ierr, vectorstore>>

\* lines 82-93: DirectoryLoader.load(); no document is a ValueError.
LoadDocuments(i) ==
    /\ ipc[i] = "load_docs"
    /\ UNCHANGED rvars
    /\ documents' = [documents EXCEPT ![i] = dataDocs]
    /\ did' = [did EXCEPT ![i] = @ \cup {"enumerate"}]
    /\ IF dataDocs = {}
       THEN Raise(i, "EmptyCorpus")
       ELSE /\ ipc' = [ipc EXCEPT ![i] = "from_documents"]
            /\ UNCHANGED ierr
    /\ UNCHANGED <<persistExists, persisted, dataExists, dataDocs, fs0, sawPersist,
                   written, upserted, vectorstore>>

\* lines 96-108: the documents are split, and Chroma.from_documents opens a
\* persistent client on VECTOR_DB_PATH, which creates the directory.
FromDocuments(i) ==
    /\ ipc[i] = "from_documents"
    /\ UNCHANGED rvars
    /\ persistExists' = TRUE
    /\ did' = [did EXCEPT ![i] = @ \cup {"split", "open"}]
    /\ ipc' = [ipc EXCEPT ![i] = "embed"]
    /\ UNCHANGED <<persisted, dataExists, dataDocs, fs0, sawPersist,
                   documents, written, upserted, ierr, vectorstore>>

\* the embedding of every chunk (embeddings.embed_documents); it may raise.
EmbedDocuments(i) ==
    /\ ipc[i] = "embed"
    /\ UNCHANGED rvars
    /\ \/ /\ did' = [did EXCEPT ![i] = @ \cup {"embed"}]
          /\ ipc' = [ipc EXCEPT ![i] = "upsert"]
          /\ UNCHANGED ierr
       \/ /\ Raise(i, "EmbeddingError")
          /\ UNCHANGED did
    /\ UNCHANGED <<persistExists, persisted, dataExists, dataDocs, fs0, sawPersist,
                   documents, written, upserted, vectorstore>>

\* the collection is extended batch by batch (a batch is one chunk here);
\* a batch may raise.  After the last batch line 105 assigns self.vectorstore
\* and _initialize returns.
Upsert(i) ==
    /\ ipc[i] = "upsert"
    /\ UNCHANGED rvars
    /\ \/ /\ LET c == SplitDocuments(documents[i])[upserted[i] + 1]
             IN persisted' = persisted \cup {<<c[1], c[2], i>>}
          /\ upserted' = [upserted EXCEPT ![i] = @ + 1]
          /\ did' = [did EXCEPT ![i] = @ \cup {"upsert"}]
          /\ IF upserted[i] + 1 = Len(SplitDocuments(documents[i]))
             THEN /\ ipc' = [ipc EXCEPT ![i] = "ready"]
                  /\ vectorstore' = [vectorstore EXCEPT ![i] = "created"]
             ELSE UNCHANGED <<ipc, vectorstore>>
          /\ UNCHANGED ierr
       \/ /\ Raise(i, "UpsertError")
          /\ UNCHANGED <<persisted, upserted, did, vectorstore>>
    /\ UNCHANGED <<persistExists, dataExists, dataDocs, fs0, sawPersist,
                   documents, written>>

InitStep(i) ==
    \/ Initialize(i)
    \/ LoadVectorStore(i)
    \/ CreateVectorStore(i)
    \/ MakeDirs(i)
    \/ CreateSampleDocuments(i)
    \/ LoadDocuments(i)
    \/ FromDocuments(i)
    \/ EmbedDocuments(i)
    \/ Upsert(i)

\* ------------------------------------------------------------------------
\* Requests.  TextLen is the number of characters of a text.
\* ------------------------------------------------------------------------
Reqs == 1..MaxReqs
MIN_LENGTH == 1
Q1 == "ML?"
Q2 == "eg"
Empty == ""
Questions == {None, Empty, Q1, Q2}
SessionIds == {None, "s1"}
Answers == {Empty, "ok"}
Standalone == {Q2, "ML eg?"}
RETRIEVAL_K == 3

TextLen(t) ==
    CASE t = Empty -> 0
      [] t = Q1 -> 3
      [] OTHER -> 2

\* models.py: question is required and has min_length = 1.
ValidQuestion(q) == q # None /\ TextLen(q) >= MIN_LENGTH

\* models.py line 12: an absent session_id is "default".
SessionOf(r) == IF req[r].session_id = None THEN "default" ELSE req[r].session_id

Human(text) == [type |-> "human", content |-> text]
AI(text) == [type |-> "ai", content |-> text]

\* The turns of a message list: consecutive (human, ai) pairs.
Turns(msgs) ==
    [k \in 1..(Len(msgs) \div 2) |->
        [question |-> msgs[2 * k - 1].content, answer |-> msgs[2 * k].content]]

\* as_retriever(search_kwargs={"k": RETRIEVAL_K}): at most k chunks of the
\* collection (which ones is the store's similarity ranking).
TopK(index) ==
    LET chunks == {<<e[1], e[2]>> : e \in index}
    IN IF Cardinality(chunks) <= RETRIEVAL_K THEN chunks
       ELSE CHOOSE S \in SUBSET chunks : Cardinality(S) = RETRIEVAL_K

Messages(s) == IF s \in DOMAIN chat_memories THEN chat_memories[s] ELSE <<>>

history_of(s) == Turns(Messages(s))

NoReq == [kind |-> None, question |-> None, session_id |-> None]
NoResp == [status |-> 0, text |-> None]
NoCondensePrompt == [history |-> <<>>, question |-> None]
NoPrompt == [context |-> {}, history |-> <<>>, question |-> None]

InitRequests ==
    /\ chat_memories = <<>>
    /\ loop = 0
    /\ rpc = [r \in Reqs |-> "new"]
    /\ req = [r \in Reqs |-> NoReq]
    /\ entry = [r \in Reqs |-> <<>>]
    /\ hist = [r \in Reqs |-> <<>>]
    /\ calls = [r \in Reqs |-> <<>>]
    /\ exc = [r \in Reqs |-> None]
    /\ answer = [r \in Reqs |-> None]
    /\ resp = [r \in Reqs |-> NoResp]
    /\ served = <<>>
    /\ inflight = [r \in Reqs |-> {}]
    /\ store0 = [r \in Reqs |-> <<>>]
    /\ new_question = [r \in Reqs |-> None]
    /\ query = [r \in Reqs |-> None]
    /\ source_docs = [r \in Reqs |-> {}]
    /\ cprompt = [r \in Reqs |-> NoCondensePrompt]
    /\ prompt = [r \in Reqs |-> NoPrompt]

\* The service after construction (rag_service = RAGService(), line 229):
\* one initializer has built the store from the sample documents.
InitService ==
    /\ persistExists = TRUE
    /\ persisted = Entries(SampleDocs, 1)
    /\ dataExists = TRUE
    /\ dataDocs = SampleDocs
    /\ fs0 = [persistExists |-> FALSE, dataExists |-> FALSE, dataDocs |-> {}]
    /\ ipc = [i \in Inits |-> IF i = 1 THEN "ready" ELSE "idle"]
    /\ sawPersist = [i \in Inits |-> IF i = 1 THEN "missing" ELSE None]
    /\ documents = [i \in Inits |-> IF i = 1 THEN SampleDocs ELSE {}]
    /\ written = [i \in Inits |-> IF i = 1 THEN Len(SampleNames) ELSE 0]
    /\ upserted = [i \in Inits |-> IF i = 1 THEN Len(SplitDocuments(SampleDocs)) ELSE 0]
    /\ did = [i \in Inits |-> IF i = 1
                 THEN {"makedirs", "samples", "enumerate", "split", "open", "embed", "upsert"}
                 ELSE {}]
    /\ ierr = [i \in Inits |-> None]
    /\ vectorstore = [i \in Inits |-> IF i = 1 THEN "created" ELSE None]

\* A client sends a request (requests are numbered in the order sent).
Arrive(r) ==
    /\ rpc[r] = "new"
    /\ \A p \in Reqs : p < r => rpc[p] # "new"
    /\ \E k \in {"query", "chat"}, q \in Questions, s \in SessionIds :
          /\ k = "query" => s = None
          /\ req' = [req EXCEPT ![r] = [kind |-> k, question |-> q, session_id |-> s]]
    /\ rpc' = [rpc EXCEPT ![r] = "received"]
    /\ UNCHANGED <<ivars, chat_memories, loop, entry, hist, calls, exc, answer, resp,
                   served, inflight, store0, new_question, query, source_docs, cprompt, prompt>>

\* Variant of Validate: the question is required but may be empty.
ValidateLoose(r) ==
    /\ rpc[r] = "received"
    /\ loop = 0
    /\ IF req[r].question # None
       THEN /\ rpc' = [rpc EXCEPT ![r] = "valid"]
            /\ UNCHANGED resp
       ELSE /\ rpc' = [rpc EXCEPT ![r] = "rejected"]
            /\ resp' = [resp EXCEPT ![r] = [status |-> 422, text |-> None]]
    /\ UNCHANGED <<ivars, chat_memories, loop, req, entry, hist, calls, exc, answer,
                   served, inflight, store0, new_question, query, source_docs, cprompt, prompt>>

\* FastAPI validates the body against QueryRequest / ChatRequest before the
\* endpoint function is called; an invalid body is answered 422.
Validate(r) ==
    /\ rpc[r] = "received"
    /\ loop = 0
    /\ IF ValidQuestion(req[r].question)
       THEN /\ rpc' = [rpc EXCEPT ![r] = "valid"]
            /\ UNCHANGED resp
       ELSE /\ rpc' = [rpc EXCEPT ![r] = "rejected"]
            /\ resp' = [resp EXCEPT ![r] = [status |-> 422, text |-> None]]
    /\ UNCHANGED <<ivars, chat_memories, loop, req, entry, hist, calls, exc, answer,
                   served, inflight, store0, new_question, query, source_docs, cprompt, prompt>>

\* Variant of Endpoint: the handler runs in a worker thread and leaves the
\* event loop free.
EndpointThreaded(r) ==
    /\ rpc[r] = "valid"
    /\ loop = 0
    /\ rpc' = [rpc EXCEPT ![r] = IF req[r].kind = "chat" THEN "get_or_create" ELSE "retrieve"]
    /\ inflight' = [inflight EXCEPT ![r] =
                      {p \in Reqs \ {r} : rpc[p] \in {"received", "valid"}}]
    /\ store0' = [store0 EXCEPT ![r] = chat_memories]
    /\ UNCHANGED <<ivars, chat_memories, loop, req, entry, hist, calls, exc, answer, resp,
                   served, new_question, query, source_docs, cprompt, prompt>>

\* query_endpoint / chat_endpoint are coroutines that never await: from its
\* first line to its response a handler occupies the event loop.
Endpoint(r) ==
    /\ rpc[r] = "valid"
    /\ loop = 0
    /\ loop' = r
    /\ rpc' = [rpc EXCEPT ![r] = IF req[r].kind = "chat" THEN "get_or_create" ELSE "retrieve"]
    /\ inflight' = [inflight EXCEPT ![r] =
                      {p \in Reqs \ {r} : rpc[p] \in {"received", "valid"}}]
    /\ store0' = [store0 EXCEPT ![r] = chat_memories]
    /\ UNCHANGED <<ivars, chat_memories, req, entry, hist, calls, exc, answer, resp,
                   served, new_question, query, source_docs, cprompt, prompt>>

\* Variant of GetOrCreate: the memory is created on every call.
GetOrCreateFresh(r) ==
    /\ rpc[r] = "get_or_create"
    /\ entry' = [entry EXCEPT ![r] = Messages(SessionOf(r))]
    /\ chat_memories' =
          [s \in DOMAIN chat_memories \cup {SessionOf(r)} |->
              IF s = SessionOf(r) THEN <<>> ELSE chat_memories[s]]
    /\ rpc' = [rpc EXCEPT ![r] = "prep_inputs"]
    /\ UNCHANGED <<ivars, loop, req, hist, calls, exc, answer, resp, served, inflight,
                   store0, new_question, query, source_docs, cprompt, prompt>>

\* RAGService.chat, lines 206-211: the session's memory is created on first
\* reference.
GetOrCreate(r) ==
    /\ rpc[r] = "get_or_create"
    /\ entry' = [entry EXCEPT ![r] = Messages(SessionOf(r))]
    /\ chat_memories' =
          IF SessionOf(r) \notin DOMAIN chat_memories
          THEN [s \in DOMAIN chat_memories \cup {SessionOf(r)} |->
                   IF s = SessionOf(r) THEN <<>> ELSE chat_memories[s]]
          ELSE chat_memories
    /\ rpc' = [rpc EXCEPT ![r] = "prep_inputs"]
    /\ UNCHANGED <<ivars, loop, req, hist, calls, exc, answer, resp, served, inflight,
                   store0, new_question, query, source_docs, cprompt, prompt>>

\* Variant of PrepInputs: the question is condensed whatever the history.
PrepInputsAlwaysCondense(r) ==
    /\ rpc[r] = "prep_inputs"
    /\ hist' = [hist EXCEPT ![r] = chat_memories[SessionOf(r)]]
    /\ rpc' = [rpc EXCEPT ![r] = "condense"]
    /\ UNCHANGED <<ivars, chat_memories, loop, req, entry, calls, exc, answer, resp,
                   served, inflight, store0, new_question, query, source_docs, cprompt,
                   prompt>>

\* qa_chain({"question": question}), line 222: the chain first loads
\* chat_history from the memory; with a non-empty history the question is
\* condensed by a generation call, else it is used as it is.
PrepInputs(r) ==
    /\ rpc[r] = "prep_inputs"
    /\ hist' = [hist EXCEPT ![r] = chat_memories[SessionOf(r)]]
    /\ rpc' = [rpc EXCEPT ![r] =
                 IF chat_memories[SessionOf(r)] = <<>> THEN "retrieve" ELSE "condense"]
    /\ new_question' = [new_question EXCEPT ![r] =
                           IF chat_memories[SessionOf(r)] = <<>> THEN req[r].question ELSE @]
    /\ UNCHANGED <<ivars, chat_memories, loop, req, entry, calls, exc, answer, resp,
                   served, inflight, store0, query, source_docs, cprompt, prompt>>

Fail(r, e) ==
    /\ exc' = [exc EXCEPT ![r] = e]
    /\ rpc' = [rpc EXCEPT ![r] = "raise"]

\* the condensing generation call: the question generator is given the
\* chat history and the follow-up question (the chain's condense prompt) and
\* returns the standalone question, or raises.
Condense(r) ==
    /\ rpc[r] = "condense"
    /\ calls' = [calls EXCEPT ![r] = Append(@, "condense")]
    /\ cprompt' = [cprompt EXCEPT ![r] =
                      [history |-> Turns(hist[r]), question |-> req[r].question]]
    /\ \/ /\ \E t \in Standalone : new_question' = [new_question EXCEPT ![r] = t]
          /\ rpc' = [rpc EXCEPT ![r] = "retrieve"]
          /\ UNCHANGED exc
       \/ /\ Fail(r, "GenerationFailure")
          /\ UNCHANGED new_question
    /\ UNCHANGED <<ivars, chat_memories, loop, req, entry, hist, answer, resp, served,
                   inflight, store0, query, source_docs, prompt>>

\* retriever.get_relevant_documents: the query is embedded and the store
\* searched; either call may raise (query line 185, chat line 222).
Retrieve(r) ==
    /\ rpc[r] = "retrieve"
    /\ query' = [query EXCEPT ![r] =
                    IF req[r].kind = "chat" THEN new_question[r] ELSE req[r].question]
    /\ \/ /\ calls' = [calls EXCEPT ![r] = @ \o <<"embed", "search">>]
          /\ source_docs' = [source_docs EXCEPT ![r] = TopK(persisted)]
          /\ rpc' = [rpc EXCEPT ![r] = "generate"]
          /\ UNCHANGED exc
       \/ /\ calls' = [calls EXCEPT ![r] = Append(@, "embed")]
          /\ Fail(r, "RetrievalFailure")
          /\ UNCHANGED source_docs
       \/ /\ calls' = [calls EXCEPT ![r] = @ \o <<"embed", "search">>]
          /\ Fail(r, "RetrievalFailure")
          /\ UNCHANGED source_docs
    /\ UNCHANGED <<ivars, chat_memories, loop, req, entry, hist, answer, resp, served,
                   inflight, store0, new_question, cprompt, prompt>>

\* Variant of AnswerPrompt: the chat prompt carries the question as the
\* caller asked it.
AnswerPromptOriginal(r) ==
    [context |-> source_docs[r], history |-> <<>>, question |-> req[r].question]

\* The prompt of the answering call.  query (lines 186-194): the retrieved
\* texts and the question.  chat (line 213-222): the chain built by
\* ConversationalRetrievalChain.from_llm with its defaults hands the
\* retrieved texts and the standalone question to its answering prompt,
\* which has a slot for the context and one for the question and none for
\* the chat history.
AnswerPrompt(r) ==
    [context |-> source_docs[r],
     history |-> <<>>,
     question |-> IF req[r].kind = "chat" THEN new_question[r] ELSE req[r].question]

\* Variant of Generate: the question is stored in the memory before the
\* generation call is made.
GenerateSavingFirst(r) ==
    /\ rpc[r] = "generate"
    /\ calls' = [calls EXCEPT ![r] = Append(@, "generate")]
    /\ chat_memories' =
          IF req[r].kind = "chat"
          THEN [chat_memories EXCEPT ![SessionOf(r)] = Append(@, Human(req[r].question))]
          ELSE chat_memories
    /\ \/ /\ \E a \in Answers : answer' = [answer EXCEPT ![r] = a]
          /\ rpc' = [rpc EXCEPT ![r] = IF req[r].kind = "chat" THEN "save_ai" ELSE "return"]
          /\ UNCHANGED exc
       \/ /\ Fail(r, "GenerationFailure")
          /\ UNCHANGED answer
    /\ prompt' = [prompt EXCEPT ![r] = AnswerPrompt(r)]
    /\ UNCHANGED <<ivars, loop, req, entry, hist, resp, served, inflight, store0,
                   new_question, query, source_docs, cprompt>>

\* the answering generation call (query line 196, chat line 222) returns a
\* text, possibly empty, or raises.
Generate(r) ==
    /\ rpc[r] = "generate"
    /\ calls' = [calls EXCEPT ![r] = Append(@, "generate")]
    /\ \/ /\ \E a \in Answers : answer' = [answer EXCEPT ![r] = a]
          /\ rpc' = [rpc EXCEPT ![r] = IF req[r].kind = "chat" THEN "save_human" ELSE "return"]
          /\ UNCHANGED exc
       \/ /\ Fail(r, "GenerationFailure")
          /\ UNCHANGED answer
    /\ prompt' = [prompt EXCEPT ![r] = AnswerPrompt(r)]
    /\ UNCHANGED <<ivars, chat_memories, loop, req, entry, hist, resp, served, inflight,
                   store0, new_question, query, source_docs, cprompt>>

\* Variant of SaveHuman: the question is inserted at the front of the list.
SaveHumanFirst(r) ==
    /\ rpc[r] = "save_human"
    /\ chat_memories' = [chat_memories EXCEPT ![SessionOf(r)] =
                            <<Human(req[r].question)>> \o @]
    /\ rpc' = [rpc EXCEPT ![r] = "save_ai"]
    /\ UNCHANGED <<ivars, loop, req, entry, hist, calls, exc, answer, resp, served,
                   inflight, store0, new_question, query, source_docs, cprompt, prompt>>

\* the chain saves the turn to the memory (save_context): the question as a
\* human message, then the answer as an AI message.
SaveHuman(r) ==
    /\ rpc[r] = "save_human"
    /\ chat_memories' = [chat_memories EXCEPT ![SessionOf(r)] =
                            Append(@, Human(req[r].question))]
    /\ rpc' = [rpc EXCEPT ![r] = "save_ai"]
    /\ UNCHANGED <<ivars, loop, req, entry, hist, calls, exc, answer, resp, served,
                   inflight, store0, new_question, query, source_docs, cprompt, prompt>>

\* Variant of SaveAI: every session shares one message list.
SaveAIShared(r) ==
    /\ rpc[r] = "save_ai"
    /\ chat_memories' = [s \in DOMAIN chat_memories |-> Append(chat_memories[s], AI(answer[r]))]
    /\ rpc' = [rpc EXCEPT ![r] = "return"]
    /\ UNCHANGED <<ivars, loop, req, entry, hist, calls, exc, answer, resp, served,
                   inflight, store0, new_question, query, source_docs, cprompt, prompt>>

SaveAI(r) ==
    /\ rpc[r] = "save_ai"
    /\ chat_memories' = [chat_memories EXCEPT ![SessionOf(r)] = Append(@, AI(answer[r]))]
    /\ rpc' = [rpc EXCEPT ![r] = "return"]
    /\ UNCHANGED <<ivars, loop, req, entry, hist, calls, exc, answer, resp, served,
                   inflight, store0, new_question, query, source_docs, cprompt, prompt>>

\* the service call returned: the endpoint answers 200 with the text
\* (app.py lines 86-92 and 114-120).
Respond(r) ==
    /\ rpc[r] = "return"
    /\ resp' = [resp EXCEPT ![r] = [status |-> 200, text |-> answer[r]]]
    /\ served' = IF req[r].kind = "chat" THEN Append(served, r) ELSE served
    /\ rpc' = [rpc EXCEPT ![r] = "done"]
    /\ loop' = 0
    /\ UNCHANGED <<ivars, chat_memories, req, entry, hist, calls, exc, answer, inflight,
                   store0, new_question, query, source_docs, cprompt, prompt>>

\* Variant of RespondError: the endpoint answers 200 with an apology.
RespondErrorFallback(r) ==
    /\ rpc[r] = "raise"
    /\ resp' = [resp EXCEPT ![r] = [status |-> 200, text |-> "sorry"]]
    /\ rpc' = [rpc EXCEPT ![r] = "done"]
    /\ loop' = 0
    /\ UNCHANGED <<ivars, chat_memories, req, entry, hist, calls, exc, answer, served,
                   inflight, store0, new_question, query, source_docs, cprompt, prompt>>

\* the service call raised: query/chat log and re-raise, the endpoint turns
\* the exception into HTTPException(500) (app.py lines 94-96 and 122-124).
RespondError(r) ==
    /\ rpc[r] = "raise"
    /\ resp' = [resp EXCEPT ![r] = [status |-> 500, text |-> None]]
    /\ rpc' = [rpc EXCEPT ![r] = "done"]
    /\ loop' = 0
    /\ UNCHANGED <<ivars, chat_memories, req, entry, hist, calls, exc, answer, served,
                   inflight, store0, new_question, query, source_docs, cprompt, prompt>>

ReqStep(r) ==
    \/ Arrive(r)
    \/ Validate(r)
    \/ Endpoint(r)
    \/ GetOrCreate(r)
    \/ PrepInputs(r)
    \/ Condense(r)
    \/ Retrieve(r)
    \/ Generate(r)
    \/ SaveHuman(r)
    \/ SaveAI(r)
    \/ Respond(r)
    \/ RespondError(r)

\* ------------------------------------------------------------------------
\* Specifications
\* ------------------------------------------------------------------------
InitInit == InitFS /\ InitInitializers /\ InitRequests

NextInit == \E i \in Inits : InitStep(i)

SpecInit == InitInit /\ [][NextInit]_vars

Init == InitService /\ InitRequests

Next == \E r \in Reqs : ReqStep(r)

Spec == Init /\ [][Next]_vars

\* ------------------------------------------------------------------------
\* Properties
\* ------------------------------------------------------------------------
IsPrefix(a, b) == Len(a) <= Len(b) /\ SubSeq(b, 1, Len(a)) = a

StoreSessions == {"default", "s1"}

InHandler(r) == rpc[r] \in {"get_or_create", "prep_inputs", "condense", "retrieve",
                            "generate", "save_human", "save_ai", "return", "raise"}

ChatOn(s) == {r \in Reqs : req[r].kind = "chat" /\ SessionOf(r) = s}

\* the successful chat calls on session s, in the order they were answered
ServedOn(s) == SelectSeq(served, LAMBDA r : SessionOf(r) = s)

\* positions of the turn (q, a) in the history of s
TurnsWith(s, q, a) ==
    {k \in 1..Len(history_of(s)) : history_of(s)[k] = [question |-> q, answer |-> a]}

\* chat requests on s that asked q and were answered 200 with a
AnsweredWith(s, q, a) ==
    {r \in ChatOn(s) : resp[r].status = 200 /\ req[r].question = q /\ resp[r].text = a}

\* a request that was sent without a question or with an empty one
BadQuestion(r) == rpc[r] # "new" /\ req[r].question \in {None, Empty}

\* request r has issued the external call c
Called(r, c) == \E k \in 1..Len(calls[r]) : calls[r][k] = c

\* the session map st with an empty entry for s when s is not in it
WithSession(st, s) ==
    IF s \in DOMAIN st THEN st
    ELSE [x \in DOMAIN st \cup {s} |-> IF x = s THEN <<>> ELSE st[x]]

\* the session map st with the turn (q, a) appended to session s
WithTurn(st, s, q, a) ==
    [WithSession(st, s) EXCEPT ![s] = @ \o <<Human(q), AI(a)>>]

\* request r is waiting for an external call to return
Waiting(r) == rpc[r] \in {"condense", "retrieve", "generate"}

\* some initializer has embedded and upserted every chunk of its corpus
BuildCompleted ==
    \E i \in Inits : /\ "upsert" \in did[i]
                     /\ upserted[i] = Len(SplitDocuments(documents[i]))
                     /\ Entries(documents[i], i) \subseteq persisted

\* initializers that have executed a step of the build
Builders == {i \in Inits : did[i] \cap {"split", "open", "embed", "upsert"} # {}}

\* C1: when a chat call ends in failure, the session's history is exactly the
\* turns it held when the call was entered, and the caller is told of the failure.
FailedChatKeepsHistory ==
    [][\A r \in Reqs :
          (req[r].kind = "chat" /\ rpc[r] = "raise" /\ rpc'[r] = "done")
             => /\ resp'[r].status = 500
                /\ history_of(SessionOf(r))' = Turns(entry[r])
                /\ history_of(SessionOf(r)) = Turns(entry[r])]_vars

FailedChatAfterOneTurn ==
    \E r \in Reqs : /\ req[r].kind = "chat" /\ rpc[r] = "done" /\ exc[r] # None
                    /\ Len(Turns(entry[r])) >= 1
                    /\ history_of(SessionOf(r)) = Turns(entry[r])

\* C2: between calls, a session's history is the sequence of its successful
\* chat calls in the order they were answered, each turn holding the call's
\* question and the answer returned to it.
HistoryInCallOrder ==
    \A s \in StoreSessions :
        (loop = 0 \/ req[loop].kind # "chat" \/ SessionOf(loop) # s)
           => history_of(s) = [k \in 1..Len(ServedOn(s)) |->
                                  [question |-> req[ServedOn(s)[k]].question,
                                   answer |-> resp[ServedOn(s)[k]].text]]

TwoTurnsInOrder ==
    \E s \in StoreSessions :
        /\ loop = 0
        /\ Len(ServedOn(s)) >= 2
        /\ req[ServedOn(s)[1]].question # req[ServedOn(s)[2]].question
        /\ Len(history_of(s)) = Len(ServedOn(s))

\* C3: a step changes a session's entry in the session map only if it is a
\* step of a chat request on that session id.
SessionIsolation ==
    [][\A s \in StoreSessions :
          (Messages(s)' # Messages(s) \/ (s \in DOMAIN chat_memories') # (s \in DOMAIN chat_memories))
             => \E r \in ChatOn(s) : rpc'[r] # rpc[r]]_vars

FailedChatBesideOtherSession ==
    \E r, p \in Reqs :
        /\ req[r].kind = "chat" /\ req[p].kind = "chat"
        /\ SessionOf(r) # SessionOf(p)
        /\ resp[r].status = 200 /\ Len(history_of(SessionOf(r))) = 1
        /\ rpc[p] = "done" /\ exc[p] # None /\ r \in inflight[p]

\* C4: whenever no chat request on a session is inside its handler, the
\* session's history holds one turn per request answered with success, each
\* turn pairing a request's question with the answer returned to that request.
OneTurnPerRequest ==
    \A s \in StoreSessions :
        (\A r \in ChatOn(s) : ~InHandler(r))
           => /\ Len(Messages(s)) = 2 * Cardinality({r \in ChatOn(s) : resp[r].status = 200})
              /\ \A q \in Questions \ {None}, a \in Answers :
                    Cardinality(TurnsWith(s, q, a)) = Cardinality(AnsweredWith(s, q, a))

ConcurrentFirstReferences ==
    \E r, p \in Reqs :
        /\ r # p
        /\ req[r].kind = "chat" /\ req[p].kind = "chat"
        /\ SessionOf(r) = SessionOf(p)
        /\ p \in inflight[r]
        /\ entry[r] = <<>>
        /\ resp[r].status = 200 /\ resp[p].status = 200
        /\ Len(history_of(SessionOf(r))) = 2

\* C5: every step leaves each session of the store in the store, with its
\* messages before the step a prefix of its messages after it.
AppendOnly ==
    [][\A s \in DOMAIN chat_memories :
          /\ s \in DOMAIN chat_memories'
          /\ IsPrefix(chat_memories[s], chat_memories'[s])]_vars

SessionGrewTwice ==
    \E s \in StoreSessions : Len(history_of(s)) >= 2 /\ loop = 0

\* C6: a request in which an external call failed is answered 500 without
\* text; a request answered 200 had no failure and carries the text of its
\* own generation call.
FailurePropagates ==
    \A r \in Reqs :
        /\ (rpc[r] = "done" /\ exc[r] # None)
              => (resp[r].status = 500 /\ resp[r].text = None)
        /\ resp[r].status = 200
              => /\ exc[r] = None
                 /\ resp[r].text = answer[r]
                 /\ calls[r] # <<>> /\ calls[r][Len(calls[r])] = "generate"

BothProtocolsFailed ==
    \E r, p \in Reqs :
        /\ req[r].kind = "query" /\ rpc[r] = "done" /\ exc[r] = "RetrievalFailure"
        /\ req[p].kind = "chat" /\ rpc[p] = "done" /\ exc[p] = "GenerationFailure"

\* C7: a request whose question is absent or empty is rejected with 422
\* having issued no external call, and no session exists or grows on its
\* account.
InvalidRejectedEarly ==
    /\ \A r \in Reqs :
          BadQuestion(r)
             => /\ rpc[r] \in {"received", "rejected"}
                /\ calls[r] = <<>>
                /\ rpc[r] = "rejected" => resp[r].status = 422
    /\ \A s \in StoreSessions :
          /\ s \in DOMAIN chat_memories => \E r \in ChatOn(s) : ~BadQuestion(r)
          /\ Len(Messages(s)) <= 2 * Cardinality({r \in ChatOn(s) : ~BadQuestion(r)})

EmptyQuestionRejected ==
    \E r, p \in Reqs :
        /\ req[r].kind = "chat" /\ req[r].question = Empty /\ rpc[r] = "rejected"
        /\ req[p].kind = "query" /\ req[p].question = None /\ rpc[p] = "rejected"

\* C8: at most one initializer executes the build (split, open the persisted
\* collection, embed, upsert), whatever the interleaving of the initializers.
BuildAtMostOnce == Cardinality(Builders) <= 1

\* C9: an initializer that found the persist directory loads the store and
\* performs no step of the build path.
LoadSkipsBuild ==
    \A i \in Inits :
        sawPersist[i] = "exists"
           => /\ ipc[i] = "ready"
              /\ vectorstore[i] = "loaded"
              /\ did[i] = {}
              /\ documents[i] = {}
              /\ written[i] = 0
              /\ upserted[i] = 0

LoadedBesideDocuments ==
    \E i \in Inits : sawPersist[i] = "exists" /\ ipc[i] = "ready" /\ dataDocs # {}

\* C10 as stated: a fresh build over a document source that was missing or
\* empty at startup fails with EmptyCorpus.
EmptySourceFailsStartup ==
    \A i \in Inits :
        (sawPersist[i] = "missing" /\ (~fs0.dataExists \/ fs0.dataDocs = {}))
           => /\ ipc[i] # "ready"
              /\ "enumerate" \in did[i] => (ipc[i] = "failed" /\ ierr[i] = "EmptyCorpus")

\* C10 amended: an initializer whose enumeration of the data directory finds
\* no document fails with EmptyCorpus before the store is opened and never
\* becomes ready; the initializer that creates a missing data directory
\* enumerates it with the three sample documents in it.
EmptyCorpusFailsStartup ==
    \A i \in Inits :
        /\ ("enumerate" \in did[i] /\ documents[i] = {})
              => /\ ipc[i] = "failed" /\ ierr[i] = "EmptyCorpus"
                 /\ vectorstore[i] = None
                 /\ did[i] \cap {"split", "open", "embed", "upsert"} = {}
        /\ ("makedirs" \in did[i] /\ "enumerate" \in did[i]) => SampleDocs \subseteq documents[i]
        /\ vectorstore[i] = "created" => documents[i] # {}

EmptyDirectoryFailed ==
    \E i \in Inits : /\ "enumerate" \in did[i] /\ documents[i] = {} /\ ipc[i] = "failed"
                     /\ fs0.dataExists /\ sawPersist[i] = "missing"

RetrievalQueryFixed ==
    \A r \in Reqs :
        /\ (req[r].kind = "chat" /\ rpc[r] = "retrieve")
              => /\ source_docs[r] = {} /\ ~Called(r, "embed")
                 /\ new_question[r] # None
        /\ (req[r].kind = "chat" /\ Called(r, "embed"))
              => /\ query[r] = new_question[r]
                 /\ entry[r] = <<>>
                       => (query[r] = req[r].question /\ ~Called(r, "condense"))
                 /\ entry[r] # <<>>
                       => /\ calls[r][1] = "condense"
                          /\ query[r] \in Standalone
                          /\ cprompt[r] = [history |-> Turns(entry[r]),
                                           question |-> req[r].question]

BothRetrievalQueries ==
    \E r, p \in Reqs :
        /\ req[r].kind = "chat" /\ req[p].kind = "chat"
        /\ entry[r] = <<>> /\ Called(r, "search") /\ query[r] = req[r].question
        /\ entry[p] # <<>> /\ Called(p, "search") /\ query[p] # req[p].question

\* C13 as stated: when a handler is about to respond, the session map is the
\* map it found with one turn appended if it is a chat call that succeeded,
\* and exactly the map it found otherwise; the index is as it was.
OnlySuccessfulChatChangesStore ==
    \A r \in Reqs :
        rpc[r] \in {"return", "raise"}
           => /\ persistExists /\ persisted = Entries(SampleDocs, 1)
              /\ chat_memories =
                    IF req[r].kind = "chat" /\ exc[r] = None
                    THEN WithTurn(store0[r], SessionOf(r), req[r].question, answer[r])
                    ELSE store0[r]

\* C13 amended: when a handler is about to respond, the session map is the
\* map it found with one turn appended if it is a chat call that succeeded;
\* the map it found, with an empty entry added for the call's session id when
\* the id was not in it, if it is a chat call that failed; exactly the map it
\* found if it is a query call; the index is as it was.
StoreChangesOnlyByChat ==
    \A r \in Reqs :
        rpc[r] \in {"return", "raise"}
           => /\ persistExists /\ persisted = Entries(SampleDocs, 1)
              /\ chat_memories =
                    IF req[r].kind = "chat" /\ exc[r] = None
                    THEN WithTurn(store0[r], SessionOf(r), req[r].question, answer[r])
                    ELSE IF req[r].kind = "chat"
                    THEN WithSession(store0[r], SessionOf(r))
                    ELSE store0[r]

FailedChatLeftEmptySession ==
    \E r, p \in Reqs :
        /\ req[r].kind = "chat" /\ rpc[r] = "raise"
        /\ SessionOf(r) \notin DOMAIN store0[r]
        /\ chat_memories[SessionOf(r)] = <<>>
        /\ req[p].kind = "query" /\ resp[p].status = 200

\* C14: every stored turn has a non-empty answer, and no chat call is
\* answered 200 with an empty text.
StoredAnswersNonEmpty ==
    /\ \A s \in DOMAIN chat_memories :
          \A k \in 1..Len(history_of(s)) : history_of(s)[k].answer # Empty
    /\ \A r \in Reqs :
          (req[r].kind = "chat" /\ resp[r].status = 200) => resp[r].text # Empty

\* C15: while a chat request waits for an external call, a valid chat request
\* on another session id can enter its handler.
NothingHeldWhileWaiting ==
    \A r, p \in Reqs :
        (/\ r # p
         /\ req[r].kind = "chat" /\ Waiting(r)
         /\ req[p].kind = "chat" /\ rpc[p] = "valid"
         /\ SessionOf(p) # SessionOf(r))
           => ENABLED Endpoint(p)

\* C16: once no initializer is inside the build, a persist directory that
\* the program created holds every chunk of a completed build.
PersistedImpliesComplete ==
    (/\ persistExists /\ ~fs0.persistExists
     /\ \A i \in Inits : ipc[i] \in {"idle", "ready", "failed"})
       => BuildCompleted

====
